---- MODULE Spec2Model ----
(***************************************************************************)
(* A model of model_logger.log_level.ModelLogger: the level filter, the    *)
(* size-triggered rotation of the live log file into a gzip archive, the   *)
(* pruning of old archives and the append of the rendered record.          *)
(*                                                                         *)
(* Text is modelled byte for byte: a string is a sequence of one-character *)
(* strings, a file's content is such a sequence and its size is the        *)
(* sequence's length (ASCII text, POSIX newlines).                         *)
(***************************************************************************)
EXTENDS Integers, Sequences, FiniteSets, TLC

(***************************************************************************)
(* Bounds of the model.                                                    *)
(***************************************************************************)
\* number of calls (log methods and set_level) made on the logger
MaxCalls == 2
\* number of seconds the wall clock advances during the run
MaxTicks == 1
\* number of calls into which the environment injects an I/O fault
MaxFaults == 1
\* a write that fails is tried with each of the MaxCut shortest and each of the
\* MaxCut longest prefixes it can leave behind
MaxCut == 2
\* number of calls the threads make between them when they share the logger
MaxThreadCalls == 3

(***************************************************************************)
(* Strings.                                                                *)
(***************************************************************************)
LowerAlpha == <<"a","b","c","d","e","f","g","h","i","j","k","l","m",
                "n","o","p","q","r","s","t","u","v","w","x","y","z">>
UpperAlpha == <<"A","B","C","D","E","F","G","H","I","J","K","L","M",
                "N","O","P","Q","R","S","T","U","V","W","X","Y","Z">>
DigitChars == <<"0","1","2","3","4","5","6","7","8","9">>

\* str.upper(), one character
UpperChar(c) ==
    IF \E i \in 1..26 : LowerAlpha[i] = c
    THEN UpperAlpha[CHOOSE i \in 1..26 : LowerAlpha[i] = c]
    ELSE c

\* str.upper()
Upper(s) == [i \in 1..Len(s) |-> UpperChar(s[i])]

\* str.startswith(prefix)
StartsWith(s, prefix) ==
    /\ Len(prefix) <= Len(s)
    /\ SubSeq(s, 1, Len(prefix)) = prefix

\* str.endswith(suffix)
EndsWith(s, suffix) ==
    /\ Len(suffix) <= Len(s)
    /\ SubSeq(s, Len(s) - Len(suffix) + 1, Len(s)) = suffix

\* the positions of "/" in a path
SlashPositions(path) == {i \in 1..Len(path) : path[i] = "/"}

\* the largest element of a non-empty set of integers
SetMax(S) == CHOOSE m \in S : \A x \in S : x <= m

\* os.path.basename(path): what follows the last "/"
Basename(path) ==
    IF SlashPositions(path) = {} THEN path
    ELSE SubSeq(path, SetMax(SlashPositions(path)) + 1, Len(path))

\* format spec "<w": left-justify s in a field of w characters, padding with spaces
LJust(s, w) ==
    IF Len(s) >= w THEN s ELSE s \o [i \in 1..(w - Len(s)) |-> " "]

\* a number below 100 as two decimal digits
Digits2(n) == <<DigitChars[((n \div 10) % 10) + 1], DigitChars[(n % 10) + 1]>>

\* a number below 10000 as four decimal digits
Digits4(n) == Digits2(n \div 100) \o Digits2(n % 100)

(***************************************************************************)
(* The wall clock counts the seconds since 2024-01-01 00:00:00 and stays   *)
(* within that month.                                                      *)
(***************************************************************************)
ClockYear(t) == 2024
ClockMonth(t) == 1
ClockDay(t) == 1 + (t \div 86400)
ClockHour(t) == (t \div 3600) % 24
ClockMinute(t) == (t \div 60) % 60
ClockSecond(t) == t % 60

\* the default of timestamp_format, and the fallback of _log
LOG_TIMESTAMP_FORMAT == "%Y-%m-%d %H:%M:%S"
\* the format of _get_archive_filename
ARCHIVE_TIMESTAMP_FORMAT == "%Y%m%d_%H%M%S"

\* datetime.strftime(format) for the two formats the logger uses
Strftime(t, format) ==
    IF format = ARCHIVE_TIMESTAMP_FORMAT
    THEN Digits4(ClockYear(t)) \o Digits2(ClockMonth(t)) \o Digits2(ClockDay(t))
         \o <<"_">>
         \o Digits2(ClockHour(t)) \o Digits2(ClockMinute(t)) \o Digits2(ClockSecond(t))
    ELSE Digits4(ClockYear(t)) \o <<"-">> \o Digits2(ClockMonth(t)) \o <<"-">>
         \o Digits2(ClockDay(t)) \o <<" ">>
         \o Digits2(ClockHour(t)) \o <<":">> \o Digits2(ClockMinute(t)) \o <<":">>
         \o Digits2(ClockSecond(t))

(***************************************************************************)
(* Levels.                                                                 *)
(***************************************************************************)
DEBUG == <<"D","E","B","U","G">>
INFO == <<"I","N","F","O">>
SUCCESS == <<"S","U","C","C","E","S","S">>
WARNING == <<"W","A","R","N","I","N","G">>
ERROR == <<"E","R","R","O","R">>

\* ModelLogger.LOG_LEVELS
LOG_LEVELS ==
    (DEBUG :> 0) @@ (INFO :> 1) @@ (SUCCESS :> 2) @@ (WARNING :> 3) @@ (ERROR :> 4)

ESC == "ESC"
\* ModelLogger.COLORS: colorama's Fore codes
COLORS ==
    (INFO :> <<ESC,"[","3","4","m">>) @@ (SUCCESS :> <<ESC,"[","3","2","m">>)
    @@ (WARNING :> <<ESC,"[","3","3","m">>) @@ (ERROR :> <<ESC,"[","3","1","m">>)
    @@ (DEBUG :> <<ESC,"[","3","5","m">>)
\* colorama's Style.RESET_ALL
RESET_ALL == <<ESC,"[","0","m">>

(***************************************************************************)
(* The state.  An unset (None) file_path, archive_dir or timestamp_format  *)
(* is the empty string: the code only tests their truth value.             *)
(***************************************************************************)
VARIABLES
    name,              \* self.name
    file_path,         \* self.file_path
    timestamp_format,  \* self.timestamp_format
    level,             \* self.level
    max_file_size,     \* self.max_file_size
    backup_count,      \* self.backup_count
    archive_dir,       \* self.archive_dir
    log_file,          \* the file at file_path: [exists, data]
    archives,          \* the directory at archive_dir: file name -> [gz, mtime]
    archive_dir_exists, \* whether the archive directory exists on disk
    constructed,       \* "no" before __init__ is called, then "ok" or "failed"
    clock,             \* the latest second the run is known to have reached
    fs_clock,          \* the second of the latest file time the kernel stamped
    calls,             \* number of calls made so far
    faults,            \* number of calls that met an I/O fault so far
    log_raised,        \* whether some log call has raised an error
    last,              \* what the most recent call did (see Observed)
    threads,           \* the calls in progress when threads share the logger
    since_rotation     \* the lines appended since the last truncation, in order

config == <<name, file_path, timestamp_format, max_file_size, backup_count, archive_dir>>
vars == <<name, file_path, timestamp_format, level, max_file_size, backup_count,
          archive_dir, log_file, archives, archive_dir_exists, constructed, clock,
          fs_clock,
          calls, faults, log_raised, last, threads, since_rotation>>

(***************************************************************************)
(* gzip: a file holds the member's header, the compressed payload and a    *)
(* trailer with the length of the uncompressed data (ISIZE; the data here  *)
(* is far shorter than 2^32 bytes).  A stream cut before its trailer does  *)
(* not decompress; a file of no bytes at all reads as empty data.          *)
(***************************************************************************)
\* gzip.open(path, 'wb') + shutil.copyfileobj + close
GzipCompress(data) == [header |-> TRUE, payload |-> data, trailer |-> <<Len(data)>>]

\* a gzip stream of which the file holds only a part, with the first k bytes of
\* the input at most
GzipCut(data, k) == [header |-> TRUE, payload |-> SubSeq(data, 1, k), trailer |-> <<>>]

\* the file gzip.open(path, 'wb') creates, before any byte reaches it
EmptyFile == [header |-> FALSE, payload |-> <<>>, trailer |-> <<>>]

\* gzip.open(path, 'rb').read()
GzipDecompress(member) ==
    IF ~member.header
    THEN [ok |-> TRUE, data |-> <<>>]
    ELSE IF member.trailer = <<Len(member.payload)>>
    THEN [ok |-> TRUE, data |-> member.payload]
    ELSE [ok |-> FALSE, data |-> <<>>]

(***************************************************************************)
(* What the environment gives one call: an I/O fault, the order in which   *)
(* os.listdir names the files, the second the clock shows when             *)
(* _get_archive_filename reads it, and the second of the archive's file     *)
(* time.                                                                   *)
(***************************************************************************)
\* in _rotate_log_file: opening the live file for reading or the archive for
\* writing, writing the archive, truncating the live file, listing the archive
\* directory
RotateFaults == {"none", "open", "gzip_write", "truncate", "listdir"}
\* in _write_to_file: opening the live file for append, writing the record
AppendFaults == {"none", "open_a", "write"}

\* what a failed write of the archive leaves on disk: a stream that the exit of
\* the with block closed, a stream that ends early, or no byte at all
PartialKinds == {"closed", "cut", "empty"}

\* no fault; cut is the number of bytes that a write which fails has written,
\* partial the kind of archive a failed copy leaves, later the second read at
\* line 61, mtime the second at which the kernel stamps the archive when the
\* stream is written
NoFaults == [rotate |-> "none", append |-> "none", listing |-> <<>>, rm_fail |-> {},
             cut |-> 0, partial |-> "closed", later |-> 0, mtime |-> 0]

\* os.listdir returns the names in arbitrary order: every order of the names S
RECURSIVE Listings(_)
Listings(S) ==
    IF S = {} THEN {<<>>}
    ELSE UNION {{<<x>> \o rest : rest \in Listings(S \ {x})} : x \in S}

(***************************************************************************)
(* ModelLogger                                                             *)
(***************************************************************************)
GZ == <<".","g","z">>

\* _get_archive_filename
GetArchiveFilename(now) ==
    Basename(file_path) \o <<"_">> \o Strftime(now, ARCHIVE_TIMESTAMP_FORMAT) \o GZ

\* list.sort(key=lambda x: x[1]): stable, smallest key first
RECURSIVE SortOldestFirst(_)
SortOldestFirst(entries) ==
    IF entries = <<>> THEN <<>>
    ELSE LET sorted == SortOldestFirst(SubSeq(entries, 1, Len(entries) - 1))
             x == entries[Len(entries)]
             before == SelectSeq(sorted, LAMBDA e : e[2] <= x[2])
             after == SelectSeq(sorted, LAMBDA e : e[2] > x[2])
         IN  before \o <<x>> \o after

\* list.sort(key=lambda x: x[1], reverse=True): stable, largest key first
RECURSIVE SortNewestFirst(_)
SortNewestFirst(entries) ==
    IF entries = <<>> THEN <<>>
    ELSE LET sorted == SortNewestFirst(SubSeq(entries, 1, Len(entries) - 1))
             x == entries[Len(entries)]
             \* x goes behind every entry whose key is not smaller
             before == SelectSeq(sorted, LAMBDA e : e[2] >= x[2])
             after == SelectSeq(sorted, LAMBDA e : e[2] < x[2])
         IN  before \o <<x>> \o after

\* archives[self.backup_count + 1:]: one archive too many is kept
SliceFromNext(seq, n) == SubSeq(seq, n + 2, Len(seq))

\* archives[-self.backup_count:]: the oldest backup_count archives go
SliceLast(seq, n) ==
    IF n = 0 \/ n >= Len(seq) THEN seq ELSE SubSeq(seq, Len(seq) - n + 1, Len(seq))

\* archives[self.backup_count:]
SliceFrom(seq, n) == SubSeq(seq, n + 1, Len(seq))

\* the (path, mtime) list _cleanup_old_archives builds from a directory listing
MatchingArchives(dir, listing) ==
    LET matched == SelectSeq(listing,
                     LAMBDA f : EndsWith(f, GZ) /\ StartsWith(f, Basename(file_path)))
    IN  [i \in 1..Len(matched) |-> <<matched[i], dir[matched[i]].mtime>>]

Range(seq) == {seq[i] : i \in 1..Len(seq)}

\* the paths _cleanup_old_archives goes on to remove, in order
ExcessArchives(dir, listing) ==
    LET excess == SliceFrom(SortNewestFirst(MatchingArchives(dir, listing)),
                            backup_count)
    IN  [i \in 1..Len(excess) |-> excess[i][1]]

\* the removal loop without its try/except: it ends at the first removal that fails
CleanupAborting(dir, io) ==
    LET paths == ExcessArchives(dir, io.listing)
        fails == {i \in 1..Len(paths) : paths[i] \in io.rm_fail}
        stop == IF fails = {} THEN Len(paths)
                ELSE CHOOSE i \in fails : \A j \in fails : i <= j
        removed == {paths[i] : i \in 1..stop} \ io.rm_fail
    IN  [archives |-> [f \in DOMAIN dir \ removed |-> dir[f]],
         removed |-> removed,
         rm_failed |-> IF fails = {} THEN {} ELSE {paths[stop]},
         attempted |-> SubSeq(paths, 1, stop),
         listed |-> MatchingArchives(dir, io.listing),
         printed |-> <<>>]

\* _cleanup_old_archives: os.remove fails for the names in io.rm_fail
CleanupOldArchives(dir, io) ==
    IF archive_dir = <<>>
    THEN [archives |-> dir, removed |-> {}, rm_failed |-> {}, printed |-> <<>>,
          attempted |-> <<>>, listed |-> <<>>]
    ELSE LET paths == ExcessArchives(dir, io.listing)
             failed == SelectSeq(paths, LAMBDA f : f \in io.rm_fail)
             removed == Range(paths) \ io.rm_fail
         IN  [archives |-> [f \in DOMAIN dir \ removed |-> dir[f]],
              removed |-> removed,
              rm_failed |-> Range(failed),
              attempted |-> paths,
              listed |-> MatchingArchives(dir, io.listing),
              printed |-> [i \in 1..Len(failed) |->
                             [kind |-> "remove_error", text |-> failed[i]]]]

RotationError == <<[kind |-> "rotation_error", text |-> <<>>]>>

\* the lengths of the prefix a write that fails can leave behind
CutPoints(data) == 0..(Len(data) - 1)

\* the cut points a run tries: the first MaxCut and the last MaxCut of them
CutChoices(data) ==
    {k \in CutPoints(data) : k < MaxCut \/ k >= Len(data) - MaxCut}

\* what _rotate_log_file returns when it does not rotate
NoRotation(lf, dir) ==
    [log_file |-> lf, archives |-> dir, checked |-> FALSE, triggered |-> FALSE,
     archived |-> FALSE, truncated |-> FALSE, pruned |-> FALSE, error |-> FALSE,
     archive_name |-> <<>>, stored |-> <<>>, removed |-> {}, rm_failed |-> {},
     printed |-> <<>>, attempted |-> <<>>, listed |-> <<>>, ops |-> <<>>,
     record |-> <<>>]

\* os.path.getsize(self.file_path) >= self.max_file_size
SizeReached(lf) == Len(lf.data) >= max_file_size

\* the archive written from a live file that was cleared first
ArchiveEntryCleared(lf, mtime) == [gz |-> GzipCompress(<<>>), mtime |-> mtime]

\* the archive that gzip.open(archive_path, 'wb') and shutil.copyfileobj write,
\* stamped with the second mtime
ArchiveEntry(lf, mtime) == [gz |-> GzipCompress(lf.data), mtime |-> mtime]

\* the archive left behind when the copy of line 100 fails after io.cut bytes
PartialEntry(lf, mtime, io) ==
    [gz |-> CASE io.partial = "closed" -> GzipCompress(SubSeq(lf.data, 1, io.cut))
              [] io.partial = "cut" -> GzipCut(lf.data, io.cut)
              [] OTHER -> EmptyFile,
     mtime |-> mtime]

\* open(self.file_path, 'w').close()
Truncate(lf) == [exists |-> TRUE, data |-> <<>>]

\* the live file cleared in a finally clause, whether or not the archive was written
CaughtClearing(r) ==
    [r EXCEPT !.error = TRUE, !.printed = RotationError,
              !.log_file = [exists |-> TRUE, data |-> <<>>]]

\* except Exception: print(...), entered from the step that raised; r is the
\* rotation so far
Caught(r) == [r EXCEPT !.error = TRUE, !.printed = RotationError]

\* _rotate_log_file, with now the second that _get_archive_filename reads and
\* io.mtime the second of the file time the archive gets; ops lists the file
\* operations in the order they are made (the removals of the prune are in
\* attempted)
RotateLogFile(lf, dir, now, io) ==
    IF file_path = <<>> THEN NoRotation(lf, dir)
    ELSE IF ~lf.exists THEN [NoRotation(lf, dir) EXCEPT !.ops = <<"exists">>]
    ELSE IF SizeReached(lf)
    THEN LET archive_name == GetArchiveFilename(now)
             base == [NoRotation(lf, dir) EXCEPT !.checked = TRUE, !.triggered = TRUE,
                                                 !.archive_name = archive_name,
                                                 !.ops = <<"exists", "getsize", "open">>]
             partial == (archive_name :> PartialEntry(lf, io.mtime, io)) @@ dir
             written == (archive_name :> ArchiveEntry(lf, io.mtime)) @@ dir
             archived == [base EXCEPT !.archives = written, !.archived = TRUE,
                                      !.stored = <<written[archive_name].gz>>,
                                      !.ops = @ \o <<"copy", "truncate">>]
             cleared == [archived EXCEPT !.log_file = Truncate(lf), !.truncated = TRUE,
                                         !.ops = @ \o <<"listdir">>]
         IN  CASE io.rotate = "open" -> Caught(base)
               [] io.rotate = "gzip_write" ->
                    Caught([base EXCEPT !.archives = partial,
                                        !.stored = <<partial[archive_name].gz>>,
                                        !.ops = @ \o <<"copy">>])
               [] io.rotate = "truncate" -> Caught(archived)
               [] io.rotate = "listdir" -> Caught(cleared)
               [] OTHER ->
                    CleanupOldArchives(written, io) @@ [cleared EXCEPT !.pruned = TRUE]
    ELSE [NoRotation(lf, dir) EXCEPT !.checked = TRUE, !.ops = <<"exists", "getsize">>]

\* a level passes only above the configured one
ShouldLogAbove(lvl) == LOG_LEVELS[lvl] > LOG_LEVELS[level]

\* _should_log
ShouldLog(lvl) == LOG_LEVELS[lvl] >= LOG_LEVELS[level]

\* the file opened with 'w': the record replaces what the file held
AppendLineOverwriting(r, line, io) ==
    [log_file |-> [exists |-> TRUE, data |-> line],
     appended |-> TRUE, raised |-> "none", after_rotation |-> r.log_file,
     ops |-> r.ops \o <<"open_a", "write">>]
    @@ r

\* the append inside a try/except that drops the error
AppendLineSwallowing(r, line, io) ==
    [log_file |-> IF io.append = "none"
                  THEN [exists |-> TRUE, data |-> r.log_file.data \o line]
                  ELSE r.log_file,
     appended |-> io.append = "none", raised |-> "none",
     after_rotation |-> r.log_file, ops |-> r.ops \o <<"open_a", "write">>]
    @@ r

\* with open(self.file_path, 'a') as file: file.write(message + '\n'),
\* after the rotation check r
AppendLine(r, line, io) ==
    CASE io.append = "open_a" ->
           [appended |-> FALSE, raised |-> "OSError", after_rotation |-> r.log_file,
            ops |-> r.ops \o <<"open_a">>]
           @@ r
      [] io.append = "write" ->
           [log_file |-> [exists |-> TRUE,
                          data |-> r.log_file.data \o SubSeq(line, 1, io.cut)],
            appended |-> FALSE, raised |-> "OSError", after_rotation |-> r.log_file,
            ops |-> r.ops \o <<"open_a", "write">>]
           @@ r
      [] OTHER ->
           [log_file |-> [exists |-> TRUE, data |-> r.log_file.data \o line],
            appended |-> TRUE, raised |-> "none", after_rotation |-> r.log_file,
            ops |-> r.ops \o <<"open_a", "write">>]
           @@ r

\* the append without the rotation check of line 121
WriteToFileUnchecked(lf, dir, now, message, io) ==
    AppendLine(NoRotation(lf, dir), message \o <<"\n">>, io)

\* _write_to_file
WriteToFile(lf, dir, now, message, io) ==
    IF file_path = <<>>
    THEN NoRotation(lf, dir)
         @@ [appended |-> FALSE, raised |-> "none", after_rotation |-> lf]
    ELSE AppendLine(RotateLogFile(lf, dir, now, io), message \o <<"\n">>, io)

\* f"[{timestamp}] {level:<8} {self.name}: {message}"
RenderLine(logger, format, lvl, message, now) ==
    LET timestamp == IF format # ""
                     THEN Strftime(now, format)
                     ELSE Strftime(now, LOG_TIMESTAMP_FORMAT)
    IN  <<"[">> \o timestamp \o <<"]", " ">> \o LJust(lvl, 8) \o <<" ">>
        \o logger \o <<":", " ">> \o message

\* the plain_message of _log
PlainMessage(lvl, message, now) ==
    RenderLine(name, timestamp_format, lvl, message, now)

\* the formatted_message of _log
FormattedMessage(lvl, message, now) ==
    (IF lvl \in DOMAIN COLORS THEN COLORS[lvl] ELSE <<>>)
    \o PlainMessage(lvl, message, now) \o RESET_ALL

\* print(formatted_message) after _write_to_file, when that returned
PrintedLast(formatted_message, w) ==
    [printed |-> w.printed \o (IF w.raised = "none"
                               THEN <<[kind |-> "record", text |-> formatted_message]>>
                               ELSE <<>>),
     ops |-> w.ops \o (IF w.raised = "none" THEN <<"print">> ELSE <<>>),
     passed |-> TRUE] @@ w

\* print(formatted_message) ahead of what the file operations w printed
Printed(formatted_message, w) ==
    [printed |-> <<[kind |-> "record", text |-> formatted_message]>> \o w.printed,
     ops |-> <<"print">> \o w.ops,
     passed |-> TRUE] @@ w

\* _log, with now the second read at line 133
LogCall(lvl, message, now, io) ==
    IF ~ShouldLog(lvl)
    THEN NoRotation(log_file, archives)
         @@ [appended |-> FALSE, raised |-> "none", after_rotation |-> log_file,
             passed |-> FALSE]
    ELSE [record |-> PlainMessage(lvl, message, now)]
         @@ Printed(FormattedMessage(lvl, message, now),
                    IF file_path # <<>>
                    THEN WriteToFile(log_file, archives, io.later,
                                     PlainMessage(lvl, message, now), io)
                    ELSE NoRotation(log_file, archives)
                         @@ [appended |-> FALSE, raised |-> "none",
                             after_rotation |-> log_file])

\* self.level assigned before it is validated
SetLevelEager(new_level) ==
    [level |-> Upper(new_level),
     raised |-> IF Upper(new_level) \notin DOMAIN LOG_LEVELS THEN "ValueError"
                ELSE "none"]

\* set_level
SetLevelCall(new_level) ==
    IF Upper(new_level) \notin DOMAIN LOG_LEVELS
    THEN [level |-> level, raised |-> "ValueError"]
    ELSE [level |-> Upper(new_level), raised |-> "none"]

(***************************************************************************)
(* Construction (__init__) and the inputs of the run.                      *)
(***************************************************************************)
DefaultName == <<"M","o","d","e","l","L","o","g","g","e","r">>
\* the name arguments: None (the empty string) gives the default
NameInputs == {<<>>}
\* the file_path arguments: None and "d/a"
FilePaths == {<<>>, <<"d","/","a">>}
\* a line an earlier run left in the live log file
OldLine ==
    <<"[">> \o Strftime(0, LOG_TIMESTAMP_FORMAT) \o <<"]", " ">> \o LJust(INFO, 8)
    \o <<" ">> \o DefaultName \o <<":", " ">> \o <<"o","l","d">> \o <<"\n">>
\* the level arguments of a construction that succeeds
ConstructLevels == {INFO}
\* the max_file_size arguments, in bytes: a rendered line, and a byte more
MaxFileSizes == {46, 47}
\* the backup_count arguments
BackupCounts == {0, 1, 2}
\* the arguments of set_level
LevelInputs == {<<"W","a","r","n","i","n","g">>, <<"b","o","g","u","s">>}
\* the message arguments
Messages == {<<"x">>}
\* the second at which the run starts: 00:00:59
StartClocks == {59}

\* os.path.dirname(path): what precedes the last "/"
Dirname(path) ==
    IF SlashPositions(path) = {} THEN <<>>
    ELSE SubSeq(path, 1, SetMax(SlashPositions(path)) - 1)

\* os.path.join(dirname(file_path), 'logs', 'archive'), relative to the working directory
DefaultArchiveDir(path) ==
    (IF Dirname(path) = <<>> THEN <<>> ELSE Dirname(path) \o <<"/">>)
    \o <<"l","o","g","s","/","a","r","c","h","i","v","e">>

\* files an archive directory can hold when the logger is constructed: archives
\* written at 00:00:30 for the log files "a", "ab" and "b", and a file that is
\* no archive
OldArchive == [gz |-> GzipCompress(<<"o","l","d","\n">>), mtime |-> 30]
OldFiles ==
    {<<"a">> \o <<"_">> \o Strftime(30, ARCHIVE_TIMESTAMP_FORMAT) \o GZ,
     <<"a","b">> \o <<"_">> \o Strftime(30, ARCHIVE_TIMESTAMP_FORMAT) \o GZ,
     <<"b">> \o <<"_">> \o Strftime(30, ARCHIVE_TIMESTAMP_FORMAT) \o GZ,
     <<"a",".","1">>}

\* what is on disk when the logger is constructed: nothing (a first run), or the
\* live file and the archive directory an earlier run left; without a file_path
\* the logger never looks
Disks(path) ==
    {[log_file |-> [exists |-> FALSE, data |-> <<>>],
      archives |-> [f \in {} |-> OldArchive]]}
    \cup IF path = <<>> THEN {}
         ELSE {[log_file |-> [exists |-> TRUE, data |-> OldLine],
                archives |-> [f \in OldFiles |-> OldArchive]]}

\* the modification time read for each path of a (path, mtime) list
Mtimes(listed) ==
    [f \in {listed[i][1] : i \in 1..Len(listed)} |->
        listed[CHOOSE i \in 1..Len(listed) : listed[i][1] = f][2]]

\* what is on disk when two threads share the logger: nothing, or the live file
\* of an earlier run with one archive of the log file "a" and one of "b"
DisksThreads ==
    {[log_file |-> [exists |-> FALSE, data |-> <<>>],
      archives |-> [f \in {} |-> OldArchive]],
     [log_file |-> [exists |-> TRUE, data |-> OldLine],
      archives |->
        [f \in {<<"a">> \o <<"_">> \o Strftime(30, ARCHIVE_TIMESTAMP_FORMAT) \o GZ,
                <<"b">> \o <<"_">> \o Strftime(30, ARCHIVE_TIMESTAMP_FORMAT) \o GZ}
           |-> OldArchive]]}

\* the threads that call the logger, and the level each logs at
Threads == {1, 2}
ThreadLevel(t) == IF t = 1 THEN INFO ELSE ERROR

\* no call in progress.  Per thread: the step its call is at (pc), the second
\* it read at line 133 (now) and at line 61 (at), the offset in the live file
\* behind the bytes shutil.copyfileobj has read (pos), whether the read call
\* in progress has bytes already (got), the bytes read so far (buf), whether
\* its archive is open and still has its directory entry (fd), the names still
\* to pass to os.path.getmtime (listing), the (path, mtime) list built so far
\* (stats) and the paths still to remove (excess).
\* For the run: the lines appended so far, the threads that rotated, the
\* errors printed, the lines that reached an archive in the directory
\* (archived), the lines appended while another thread was between its first
\* read of the live file and its truncation (raced), the lines of an archive
\* that did not reach the directory (voided), and the lines a truncation
\* removed that had reached no archive (lost)
NoThreads ==
    [pc |-> [t \in Threads |-> "idle"], now |-> [t \in Threads |-> 0],
     at |-> [t \in Threads |-> 0], pos |-> [t \in Threads |-> 0],
     got |-> [t \in Threads |-> FALSE], buf |-> [t \in Threads |-> <<>>],
     fd |-> [t \in Threads |-> "none"], listing |-> [t \in Threads |-> <<>>],
     stats |-> [t \in Threads |-> <<>>], excess |-> [t \in Threads |-> <<>>],
     lines |-> <<>>, rotated |-> {}, errors |-> {}, archived |-> {}, raced |-> {},
     voided |-> {}, lost |-> {}]

\* no call before
NoPrior == [removed |-> {}, rm_failed |-> {}]

\* what a call leaves in `last`: everything it did, without the files themselves
\* (record is the plain_message it rendered), and what the call before it
\* removed and failed to remove (prior)
Observed(op, lvl, message, io, r, prior) ==
    [op |-> op, lvl |-> lvl, message |-> message,
     io_rotate |-> io.rotate, io_append |-> io.append,
     passed |-> r.passed, raised |-> r.raised, printed |-> r.printed,
     checked |-> r.checked, triggered |-> r.triggered, archived |-> r.archived,
     truncated |-> r.truncated, pruned |-> r.pruned, error |-> r.error,
     archive_name |-> r.archive_name, stored |-> r.stored,
     removed |-> r.removed, rm_failed |-> r.rm_failed,
     before |-> log_file, after_rotation |-> r.after_rotation,
     appended |-> r.appended, prior_removed |-> prior.removed,
     prior_rm_failed |-> prior.rm_failed,
     mtimes |-> Mtimes(r.listed), ops |-> r.ops, record |-> r.record]

\* a call that touched no file
Untouched(passed, raised) ==
    NoRotation(log_file, archives)
    @@ [appended |-> FALSE, raised |-> raised, after_rotation |-> log_file,
        passed |-> passed]

Init ==
    /\ name \in {IF n # <<>> THEN n ELSE DefaultName : n \in NameInputs}
    /\ file_path \in FilePaths
    /\ timestamp_format = LOG_TIMESTAMP_FORMAT
    /\ level \in {Upper(l) : l \in ConstructLevels}
    /\ max_file_size \in MaxFileSizes
    /\ backup_count \in BackupCounts
    /\ archive_dir = IF file_path # <<>> THEN DefaultArchiveDir(file_path) ELSE <<>>
    /\ \E disk \in Disks(file_path) :
         /\ log_file = disk.log_file
         /\ archives = disk.archives
    /\ archive_dir_exists = (file_path # <<>>)
    /\ constructed = "ok"
    /\ clock \in StartClocks
    /\ fs_clock = clock - 1
    /\ calls = 0
    /\ faults = 0
    /\ log_raised = FALSE
    /\ last = Observed("init", <<>>, <<>>, NoFaults, Untouched(FALSE, "none"), NoPrior)
    /\ threads = NoThreads
    /\ since_rotation = IF log_file.exists THEN <<log_file.data>> ELSE <<>>

(***************************************************************************)
(* The calls.                                                              *)
(***************************************************************************)
\* the seconds the clock can show at a read that follows a read of t
Later(t) == {u \in {t, t + 1} : \A start \in StartClocks : u <= start + MaxTicks}

\* the seconds of the file time the kernel can stamp after the clock was read
\* as t: the kernel's clock for file times runs up to a tick behind the clock
\* that datetime.now reads, it never runs backwards, and the write can come
\* after the second has turned.  File times are whole seconds, as on a file
\* system that keeps them to the second: two files stamped in one second have
\* one modification time
Stamps(t) == {m \in {t - 1, t, t + 1} :
                /\ m >= fs_clock
                /\ \A start \in StartClocks : m <= start + MaxTicks}

\* the larger of two seconds
Latest(t, u) == IF t >= u THEN t ELSE u

\* what one log call that reads now at line 133 can meet; a fault, a listing,
\* a clock reading or a file time of a step the call does not reach is not
\* enumerated
IOChoices(lvl, message, now) ==
    LET writes == ShouldLog(lvl) /\ file_path # <<>>
        rotates == writes /\ log_file.exists /\ SizeReached(log_file)
        may_fail == faults < MaxFaults
        \* the second read at line 61 and the archive's file time
        times == IF rotates
                 THEN UNION {{[NoFaults EXCEPT !.later = t, !.mtime = m] :
                                m \in Stamps(t)} : t \in Later(now)}
                 ELSE {[NoFaults EXCEPT !.later = now, !.mtime = now]}
        unstamped == IF rotates THEN {[NoFaults EXCEPT !.later = t, !.mtime = t] :
                                        t \in Later(now)}
                     ELSE {}
        written(c) == (GetArchiveFilename(c.later) :> [gz |-> EmptyFile,
                                                       mtime |-> c.mtime])
                      @@ archives
        \* the position of a name that fails the test of line 73 changes
        \* nothing: the names that pass it are taken in every order
        listings(c) == IF rotates
                       THEN Listings({f \in DOMAIN written(c) :
                                        EndsWith(f, GZ)
                                        /\ StartsWith(f, Basename(file_path))})
                       ELSE {<<>>}
        line == PlainMessage(lvl, message, now) \o <<"\n">>
        clean == UNION {{[c EXCEPT !.listing = l] : l \in listings(c)} : c \in times}
        open_faults ==
            {[c EXCEPT !.rotate = "open"] : c \in IF may_fail THEN unstamped ELSE {}}
        rotate_faults ==
            {[c EXCEPT !.rotate = f] :
                f \in {"truncate", "listdir"},
                c \in IF rotates /\ may_fail THEN times ELSE {}}
        copy_faults ==
            {[c EXCEPT !.rotate = "gzip_write", !.partial = k, !.cut = n] :
                c \in IF rotates /\ may_fail THEN times ELSE {},
                k \in PartialKinds \ {"empty"},
                n \in CutChoices(log_file.data)}
            \cup {[c EXCEPT !.rotate = "gzip_write", !.partial = "empty"] :
                    c \in IF rotates /\ may_fail THEN times ELSE {}}
        remove_faults ==
            UNION {UNION {{[c EXCEPT !.listing = l, !.rm_fail = s] :
                             s \in SUBSET Range(ExcessArchives(written(c), l)) \ {{}}} :
                          l \in listings(c)} :
                   c \in IF rotates /\ may_fail THEN times ELSE {}}
        append_faults ==
            UNION {{[c EXCEPT !.append = "open_a", !.listing = l] : l \in listings(c)}
                   \cup {[c EXCEPT !.append = "write", !.listing = l, !.cut = n] :
                           l \in listings(c), n \in CutChoices(line)} :
                   c \in IF writes /\ may_fail THEN times ELSE {}}
    IN  clean \cup open_faults \cup rotate_faults \cup copy_faults
        \cup remove_faults \cup append_faults

\* whether the call wrote an archive file, complete or not
Stamped(io, r) == r.triggered /\ io.rotate # "open"

Faulty(io, r) ==
    io.rotate # "none" \/ io.append # "none" \/ r.rm_failed # {}

\* the seconds the wall clock can show when the next call reads it
Now == Later(clock)

\* one of info, success, warning, error, debug, called when the clock shows now;
\* a call that rotates reads the clock once more, for the archive's name, and
\* the kernel stamps the archive it writes
Log(lvl, message) ==
    /\ constructed = "ok"
    /\ calls < MaxCalls
    /\ \E now \in Now :
       \E io \in IOChoices(lvl, message, now) :
       \E r \in {LogCall(lvl, message, now, io)} :
         /\ log_file' = r.log_file
         /\ archives' = r.archives
         /\ last' = Observed("log", lvl, message, io, r, last)
         /\ faults' = IF Faulty(io, r) THEN faults + 1 ELSE faults
         /\ log_raised' = (log_raised \/ r.raised # "none")
         /\ since_rotation' =
              (IF r.truncated THEN <<>> ELSE since_rotation)
              \o (IF r.appended
                  THEN <<PlainMessage(lvl, message, now) \o <<"\n">> >>
                  ELSE <<>>)
         /\ clock' = IF Stamped(io, r) THEN Latest(io.later, io.mtime)
                     ELSE IF r.triggered THEN io.later ELSE now
         /\ fs_clock' = IF Stamped(io, r) THEN io.mtime ELSE fs_clock
    /\ calls' = calls + 1
    /\ UNCHANGED <<config, level, archive_dir_exists, constructed, threads>>

Debug == \E message \in Messages : Log(DEBUG, message)
Info == \E message \in Messages : Log(INFO, message)
Success == \E message \in Messages : Log(SUCCESS, message)
Warning == \E message \in Messages : Log(WARNING, message)
Error == \E message \in Messages : Log(ERROR, message)

SetLevel ==
    /\ constructed = "ok"
    /\ calls < MaxCalls
    /\ \E new_level \in LevelInputs :
         \E r \in {SetLevelCall(new_level)} :
             /\ level' = r.level
             /\ last' = Observed("set_level", new_level, <<>>, NoFaults,
                                 Untouched(FALSE, r.raised), last)
    /\ calls' = calls + 1
    /\ UNCHANGED <<config, log_file, archives, archive_dir_exists, constructed,
                   clock, fs_clock, faults, log_raised, threads, since_rotation>>

Next == Debug \/ Info \/ Success \/ Warning \/ Error \/ SetLevel

Spec == Init /\ [][Next]_vars

(***************************************************************************)
(* _cleanup_old_archives on its own: the method applied to an archive      *)
(* directory of any content, several times in a row.                       *)
(***************************************************************************)
\* an archive the logger wrote in this run's first second
NewArchive == [gz |-> GzipCompress(OldLine), mtime |-> 59]
PruneFiles ==
    [f \in OldFiles |-> OldArchive]
    @@ (<<"a">> \o <<"_">> \o Strftime(59, ARCHIVE_TIMESTAMP_FORMAT) \o GZ :> NewArchive)

InitPrune ==
    /\ name = DefaultName
    /\ file_path = <<"d","/","a">>
    /\ timestamp_format = LOG_TIMESTAMP_FORMAT
    /\ level = INFO
    /\ max_file_size \in MaxFileSizes
    /\ backup_count \in BackupCounts
    /\ archive_dir = DefaultArchiveDir(file_path)
    /\ log_file = [exists |-> FALSE, data |-> <<>>]
    /\ archives \in {[f \in S |-> PruneFiles[f]] : S \in SUBSET DOMAIN PruneFiles}
    /\ archive_dir_exists = TRUE
    /\ constructed = "ok"
    /\ clock \in StartClocks
    /\ fs_clock = clock - 1
    /\ calls = 0
    /\ faults = 0
    /\ log_raised = FALSE
    /\ last = Observed("init", <<>>, <<>>, NoFaults, Untouched(FALSE, "none"), NoPrior)
    /\ threads = NoThreads
    /\ since_rotation = <<>>

\* a call of _cleanup_old_archives
Cleanup ==
    /\ constructed = "ok"
    /\ calls < MaxCalls
    /\ \E listing \in Listings(DOMAIN archives) :
       \E rm_fail \in IF faults < MaxFaults
                      THEN SUBSET Range(ExcessArchives(archives, listing))
                      ELSE {{}} :
       \E io \in {[NoFaults EXCEPT !.listing = listing, !.rm_fail = rm_fail]} :
       \E c \in {CleanupOldArchives(archives, io)} :
         /\ archives' = c.archives
         /\ last' = Observed("cleanup", <<>>, <<>>, io,
                             c @@ [Untouched(FALSE, "none") EXCEPT !.pruned = TRUE],
                             last)
         /\ faults' = IF c.rm_failed # {} THEN faults + 1 ELSE faults
    /\ calls' = calls + 1
    /\ UNCHANGED <<config, level, log_file, archive_dir_exists, constructed, clock, fs_clock,
                   log_raised, threads, since_rotation>>

NextPrune == Cleanup

SpecPrune == InitPrune /\ [][NextPrune]_vars

(***************************************************************************)
(* __init__ as a call: the logger is constructed on a disk that an earlier *)
(* run may have left, and is then used.                                    *)
(***************************************************************************)
\* the level arguments of __init__: a level in upper and in lower case, and a
\* name that is no level
LevelArguments ==
    ConstructLevels \cup {<<"w","a","r","n","i","n","g">>, <<"b","o","g","u","s">>}
\* the archive_dir arguments: None, and the default location spelled out
ArchiveDirInputs == {<<>>, DefaultArchiveDir(<<"d","/","a">>)}

\* os.makedirs is called whenever an archive_dir is given, with or without a file_path
ConstructCallMakingDirs(n, path, lvl, dir) ==
    [name |-> IF n # <<>> THEN n ELSE DefaultName,
     file_path |-> path,
     level |-> Upper(lvl),
     archive_dir |-> IF path # <<>> /\ dir = <<>> THEN DefaultArchiveDir(path) ELSE dir,
     makedirs |-> dir # <<>> \/ path # <<>>,
     raised |-> IF Upper(lvl) \notin DOMAIN LOG_LEVELS THEN "ValueError" ELSE "none"]

\* __init__: the fields it assigns, whether it calls os.makedirs, and the error
\* it raises after that
ConstructCall(n, path, lvl, dir) ==
    LET dir_set == IF path # <<>> /\ dir = <<>> THEN DefaultArchiveDir(path) ELSE dir
    IN  [name |-> IF n # <<>> THEN n ELSE DefaultName,
         file_path |-> path,
         level |-> Upper(lvl),
         archive_dir |-> dir_set,
         makedirs |-> path # <<>> /\ dir_set # <<>>,
         raised |-> IF Upper(lvl) \notin DOMAIN LOG_LEVELS THEN "ValueError"
                    ELSE "none"]

\* what is on disk before the logger is constructed: nothing, an empty archive
\* directory, or what an earlier run left
DisksBefore ==
    {[log_file |-> [exists |-> FALSE, data |-> <<>>],
      archives |-> [f \in {} |-> OldArchive], archive_dir_exists |-> e] :
        e \in BOOLEAN}
    \cup {[log_file |-> [exists |-> TRUE, data |-> OldLine],
           archives |-> [f \in OldFiles |-> OldArchive], archive_dir_exists |-> TRUE]}

InitConstruct ==
    /\ name = <<>>
    /\ file_path = <<>>
    /\ timestamp_format = LOG_TIMESTAMP_FORMAT
    /\ level = <<>>
    /\ max_file_size \in MaxFileSizes
    /\ backup_count \in BackupCounts
    /\ archive_dir = <<>>
    /\ \E disk \in DisksBefore :
         /\ log_file = disk.log_file
         /\ archives = disk.archives
         /\ archive_dir_exists = disk.archive_dir_exists
    /\ constructed = "no"
    /\ clock \in StartClocks
    /\ fs_clock = clock - 1
    /\ calls = 0
    /\ faults = 0
    /\ log_raised = FALSE
    /\ last = Observed("init", <<>>, <<>>, NoFaults, Untouched(FALSE, "none"), NoPrior)
    /\ threads = NoThreads
    /\ since_rotation = IF log_file.exists THEN <<log_file.data>> ELSE <<>>

\* ModelLogger(name, file_path, level=lvl, max_file_size, backup_count, archive_dir)
Construct ==
    /\ constructed = "no"
    /\ calls < MaxCalls
    /\ \E n \in NameInputs, path \in FilePaths, lvl \in LevelArguments,
          dir \in ArchiveDirInputs :
       \E c \in {ConstructCall(n, path, lvl, dir)} :
         /\ name' = c.name
         /\ file_path' = c.file_path
         /\ level' = c.level
         /\ archive_dir' = c.archive_dir
         /\ archive_dir_exists' = (archive_dir_exists \/ c.makedirs)
         /\ constructed' = IF c.raised = "none" THEN "ok" ELSE "failed"
         /\ last' = Observed("construct", lvl, <<>>, NoFaults,
                             Untouched(FALSE, c.raised), NoPrior)
    /\ calls' = calls + 1
    /\ UNCHANGED <<timestamp_format, max_file_size, backup_count, log_file, archives,
                   clock, fs_clock, faults, log_raised, threads, since_rotation>>

NextConstruct == Construct \/ Next

(***************************************************************************)
(* Two threads call the logger with no lock: each file operation and each  *)
(* clock read of _log is a step of its own, and the steps of the two calls *)
(* interleave.  The environment injects no fault here; an operation fails  *)
(* only on a file that the other thread removed.                           *)
(***************************************************************************)
\* line occurs in data
Contains(data, line) ==
    \E i \in 1..(Len(data) - Len(line) + 1) : SubSeq(data, i, i + Len(line) - 1) = line

\* the archive closed without the copy of line 100
ArchiveStepNoCopy(data, path, dir, mtime) ==
    (path :> [gz |-> GzipCompress(<<>>), mtime |-> mtime]) @@ dir

\* the exit of the with block of line 99: the gzip stream of the bytes copied
\* reaches the file at path
ArchiveStep(data, path, dir, mtime) ==
    (path :> [gz |-> GzipCompress(data), mtime |-> mtime]) @@ dir

\* a gzip stream written from offset 0 over a longer one: the bytes behind its
\* trailer are no gzip member, and the file does not decompress
Overlaid(member, old) ==
    [header |-> TRUE, payload |-> member.payload,
     trailer |-> member.trailer \o <<Len(old.payload)>>]

\* what the file holds after a stream is written from offset 0 into a file
\* that holds old: the stream, or the stream followed by what is left of old
\* when old is the longer of the two (the compressed lengths are not modelled)
Overwrites(member, old) ==
    IF old = EmptyFile \/ old = member THEN {member}
    ELSE {member, Overlaid(member, old)}

\* the lines that data holds
LinesOf(data) == {l \in Range(threads.lines) \cup {OldLine} : Contains(data, l)}

\* the lines of the live file that have reached no archive
Unarchived == LinesOf(log_file.data) \ threads.archived

\* file.endswith('.gz') and file.startswith(os.path.basename(self.file_path))
IsMatch(f) == EndsWith(f, GZ) /\ StartsWith(f, Basename(file_path))

\* the paths of archives[self.backup_count:] after the sort of line 78
ExcessOf(stats) ==
    LET excess == SliceFrom(SortNewestFirst(stats), backup_count)
    IN  [i \in 1..Len(excess) |-> excess[i][1]]

InitThreads ==
    /\ name = DefaultName
    /\ file_path = <<"d","/","a">>
    /\ timestamp_format = LOG_TIMESTAMP_FORMAT
    /\ level \in {Upper(l) : l \in ConstructLevels}
    /\ max_file_size \in MaxFileSizes
    /\ backup_count \in BackupCounts
    /\ archive_dir = DefaultArchiveDir(file_path)
    /\ \E disk \in DisksThreads :
         /\ log_file = disk.log_file
         /\ archives = disk.archives
    /\ archive_dir_exists = TRUE
    /\ constructed = "ok"
    /\ clock \in StartClocks
    /\ fs_clock = clock - 1
    /\ calls = 0
    /\ faults = 0
    /\ log_raised = FALSE
    /\ last = Observed("init", <<>>, <<>>, NoFaults, Untouched(FALSE, "none"), NoPrior)
    /\ threads = NoThreads
    /\ since_rotation = IF log_file.exists THEN <<log_file.data>> ELSE <<>>

\* what no step of a thread changes
ThreadFrame == <<config, level, archive_dir_exists, constructed, faults, log_raised, last>>

\* thread t enters a log method: _log reads the clock (line 133) and prints the
\* record (line 141)
ThreadEnter(t) ==
    /\ threads.pc[t] = "idle"
    /\ calls < MaxThreadCalls
    /\ ShouldLog(ThreadLevel(t))
    /\ \E now \in Later(clock) :
         /\ clock' = now
         /\ threads' = [threads EXCEPT !.pc[t] = "exists", !.now[t] = now]
    /\ calls' = calls + 1
    /\ UNCHANGED <<ThreadFrame, log_file, archives, fs_clock, since_rotation>>

\* os.path.exists(self.file_path) (line 89)
ThreadExists(t) ==
    /\ threads.pc[t] = "exists"
    /\ threads' = [threads EXCEPT !.pc[t] = IF log_file.exists THEN "getsize"
                                            ELSE "open_a"]
    /\ UNCHANGED <<ThreadFrame, log_file, archives, clock, fs_clock, calls, since_rotation>>

\* os.path.getsize(self.file_path) >= self.max_file_size (line 92)
ThreadGetsize(t) ==
    /\ threads.pc[t] = "getsize"
    /\ \E due \in {SizeReached(log_file)} :
         threads' = [threads EXCEPT !.pc[t] = IF due THEN "name" ELSE "open_a",
                                    !.rotated = IF due THEN @ \cup {t} ELSE @]
    /\ UNCHANGED <<ThreadFrame, log_file, archives, clock, fs_clock, calls, since_rotation>>

\* _get_archive_filename reads the clock (lines 94 and 61)
ThreadName(t) ==
    /\ threads.pc[t] = "name"
    /\ \E at \in Later(clock) :
         /\ clock' = at
         /\ threads' = [threads EXCEPT !.pc[t] = "open", !.at[t] = at]
    /\ UNCHANGED <<ThreadFrame, log_file, archives, fs_clock, calls, since_rotation>>

\* open(self.file_path, 'rb') and gzip.open(archive_path, 'wb') (lines 98-99):
\* the archive is created, or emptied if a file of its name exists (a thread
\* that has that file open keeps writing into it), and the kernel stamps it
ThreadOpen(t) ==
    /\ threads.pc[t] = "open"
    /\ \E mtime \in Stamps(clock) :
         /\ archives' = (GetArchiveFilename(threads.at[t]) :> [gz |-> EmptyFile,
                                                               mtime |-> mtime])
                        @@ archives
         /\ clock' = Latest(clock, mtime)
         /\ fs_clock' = mtime
    /\ threads' = [threads EXCEPT !.pc[t] = "read", !.fd[t] = "linked"]
    /\ UNCHANGED <<ThreadFrame, log_file, calls, since_rotation>>

\* one read of the live file by shutil.copyfileobj (line 100), which calls
\* f_in.read until a call returns no byte; a call of f_in.read reads the file
\* until a read returns no byte.  A read returns what the file holds behind
\* the offset at that moment: the other thread can append to the file or
\* truncate it between two reads.  What is read stays in the buffers of the
\* gzip stream until the stream is closed
ThreadRead(t) ==
    /\ threads.pc[t] = "read"
    /\ \E chunk \in {SubSeq(log_file.data, threads.pos[t] + 1, Len(log_file.data))} :
         threads' =
            IF chunk # <<>>
            THEN [threads EXCEPT !.buf[t] = @ \o chunk, !.pos[t] = @ + Len(chunk),
                                 !.got[t] = TRUE]
            ELSE IF threads.got[t]
            THEN [threads EXCEPT !.got[t] = FALSE]
            ELSE [threads EXCEPT !.pc[t] = "close"]
    /\ UNCHANGED <<ThreadFrame, log_file, archives, clock, fs_clock, calls, since_rotation>>

\* the with blocks of lines 98-99 exit: the stream is written from offset 0
\* into the file the thread opened, which is in the directory unless a prune
\* removed it meanwhile, and the kernel stamps the file
ThreadClose(t) ==
    /\ threads.pc[t] = "close"
    /\ \E path \in {GetArchiveFilename(threads.at[t])} :
         IF threads.fd[t] = "linked"
         THEN \E mtime \in Stamps(clock) :
              \E member \in {ArchiveStep(threads.buf[t], path, archives, mtime)[path].gz} :
              \E gz \in Overwrites(member, archives[path].gz) :
                /\ archives' = [archives EXCEPT ![path] = [gz |-> gz, mtime |-> mtime]]
                /\ clock' = Latest(clock, mtime)
                /\ fs_clock' = mtime
                /\ threads' = [threads EXCEPT
                      !.pc[t] = "truncate", !.fd[t] = "none", !.buf[t] = <<>>,
                      !.pos[t] = 0,
                      !.archived = @ \cup LinesOf(GzipDecompress(gz).data),
                      !.voided = IF GzipDecompress(gz).ok THEN @
                                 ELSE @ \cup LinesOf(threads.buf[t])]
         ELSE /\ UNCHANGED <<archives, clock, fs_clock>>
              /\ threads' = [threads EXCEPT
                    !.pc[t] = "truncate", !.fd[t] = "none", !.buf[t] = <<>>,
                      !.pos[t] = 0,
                    !.voided = @ \cup LinesOf(threads.buf[t])]
    /\ UNCHANGED <<ThreadFrame, log_file, calls, since_rotation>>

\* open(self.file_path, 'w').close() (line 103)
ThreadTruncate(t) ==
    /\ threads.pc[t] = "truncate"
    /\ log_file' = Truncate(log_file)
    /\ threads' = [threads EXCEPT !.pc[t] = "listdir", !.lost = @ \cup Unarchived]
    /\ since_rotation' = <<>>
    /\ UNCHANGED <<ThreadFrame, archives, clock, fs_clock, calls>>

\* os.listdir(self.archive_dir) (line 72) names the files in any order; the
\* names that pass line 73 are kept, in that order
ThreadListdir(t) ==
    /\ threads.pc[t] = "listdir"
    /\ \E matched \in Listings({f \in DOMAIN archives : IsMatch(f)}) :
         threads' = [threads EXCEPT
                        !.pc[t] = IF matched = <<>> THEN "open_a" ELSE "getmtime",
                        !.listing[t] = matched]
    /\ UNCHANGED <<ThreadFrame, log_file, archives, clock, fs_clock, calls, since_rotation>>

\* os.path.getmtime of the next name (line 75): FileNotFoundError when the
\* other thread removed the file since the listing, caught at line 108; after
\* the last name the list is sorted and sliced (lines 78-81)
ThreadGetmtime(t) ==
    /\ threads.pc[t] = "getmtime"
    /\ \E f \in {Head(threads.listing[t])} :
         IF f \notin DOMAIN archives
         THEN threads' = [threads EXCEPT
                            !.pc[t] = "open_a", !.listing[t] = <<>>, !.stats[t] = <<>>,
                            !.errors = @ \cup {"rotation_error"}]
         ELSE \E stats \in {Append(threads.stats[t], <<f, archives[f].mtime>>)} :
              \E rest \in {Tail(threads.listing[t])} :
                threads' = IF rest # <<>>
                           THEN [threads EXCEPT !.listing[t] = rest, !.stats[t] = stats]
                           ELSE [threads EXCEPT
                                   !.pc[t] = IF ExcessOf(stats) = <<>> THEN "open_a"
                                             ELSE "remove",
                                   !.listing[t] = <<>>, !.stats[t] = <<>>,
                                   !.excess[t] = ExcessOf(stats)]
    /\ UNCHANGED <<ThreadFrame, log_file, archives, clock, fs_clock, calls, since_rotation>>

\* os.remove of the next excess archive (line 83): an OSError when the other
\* thread removed it first, caught and printed (lines 84-85); a thread that has
\* the file open loses its directory entry
ThreadRemove(t) ==
    /\ threads.pc[t] = "remove"
    /\ \E f \in {Head(threads.excess[t])} :
       \E rest \in {Tail(threads.excess[t])} :
         /\ archives' = [g \in DOMAIN archives \ {f} |-> archives[g]]
         /\ threads' = [threads EXCEPT
               !.pc[t] = IF rest = <<>> THEN "open_a" ELSE "remove",
               !.excess[t] = rest,
               !.errors = IF f \in DOMAIN archives THEN @ ELSE @ \cup {"remove_error"},
               !.fd = [u \in Threads |->
                         IF threads.fd[u] = "linked" /\ threads.pc[u] \in {"read", "close"}
                            /\ GetArchiveFilename(threads.at[u]) = f
                         THEN "unlinked" ELSE threads.fd[u]]]
    /\ UNCHANGED <<ThreadFrame, log_file, clock, fs_clock, calls, since_rotation>>

\* open(self.file_path, 'a') (line 124) creates the file if there is none
ThreadOpenAppend(t) ==
    /\ threads.pc[t] = "open_a"
    /\ log_file' = [log_file EXCEPT !.exists = TRUE]
    /\ threads' = [threads EXCEPT !.pc[t] = "write"]
    /\ UNCHANGED <<ThreadFrame, archives, clock, fs_clock, calls, since_rotation>>

\* file.write(message + '\n') and the exit of the with block (lines 124-125):
\* the record goes to the end of the file, and the call returns
ThreadWrite(t) ==
    /\ threads.pc[t] = "write"
    /\ \E line \in {PlainMessage(ThreadLevel(t), <<"x">>, threads.now[t]) \o <<"\n">>} :
         /\ log_file' = AppendLine(NoRotation(log_file, archives), line, NoFaults).log_file
         /\ threads' = [threads EXCEPT
                          !.pc[t] = "idle", !.now[t] = 0, !.at[t] = 0,
                          !.lines = Append(@, line),
                          !.raced = IF \E u \in Threads \ {t} :
                                         \/ threads.pc[u] = "read" /\ threads.pos[u] > 0
                                         \/ threads.pc[u] \in {"close", "truncate"}
                                    THEN @ \cup {line} ELSE @]
         /\ since_rotation' = Append(since_rotation, line)
    /\ UNCHANGED <<ThreadFrame, archives, clock, fs_clock, calls>>

NextThreads ==
    \E t \in Threads :
        \/ ThreadEnter(t)
        \/ ThreadExists(t)
        \/ ThreadGetsize(t)
        \/ ThreadName(t)
        \/ ThreadOpen(t)
        \/ ThreadRead(t)
        \/ ThreadClose(t)
        \/ ThreadTruncate(t)
        \/ ThreadListdir(t)
        \/ ThreadGetmtime(t)
        \/ ThreadRemove(t)
        \/ ThreadOpenAppend(t)
        \/ ThreadWrite(t)

SpecThreads == InitThreads /\ [][NextThreads]_vars

SpecConstruct == InitConstruct /\ [][NextConstruct]_vars

(***************************************************************************)
(* The properties.                                                         *)
(***************************************************************************)
\* the '.gz' files of the archive directory whose name starts with the live log
\* file's base name
MatchingNames == {f \in DOMAIN archives :
                    EndsWith(f, GZ) /\ StartsWith(f, Basename(file_path))}

\* the size in bytes of the record the latest log call rendered, with its newline
LastRecordSize == Len(last.record) + 1

\* a step that is a call of one of the log methods
LogStep == calls' = calls + 1 /\ last'.op = "log"

\* C1 (as claimed): after a log call that rotated and pruned, the number of
\* '.gz' files in the archive directory whose name starts with the base name of
\* the live log file does not exceed backup_count.
C1_ArchiveCountBounded ==
    (last.op = "log" /\ last.pruned) => Cardinality(MatchingNames) <= backup_count

\* C1 (amended): after a log call that rotated and pruned, the '.gz' files in
\* the archive directory whose name starts with the base name of the live log
\* file, not counting those whose removal failed in that prune, number at most
\* backup_count; the ones whose removal failed are still there.
C1_ArchiveCountBoundedButFailedRemovals ==
    (last.op = "log" /\ last.pruned)
        => /\ last.rm_failed \subseteq MatchingNames
           /\ Cardinality(MatchingNames \ last.rm_failed) <= backup_count

\* C1 witness: a prune with backup_count = 1 that removed one excess archive and
\* failed to remove the other, so that two matching files are left
C1_Witness ==
    /\ last.op = "log" /\ last.pruned
    /\ backup_count = 1
    /\ last.removed # {} /\ last.rm_failed # {}
    /\ Cardinality(MatchingNames) = 2
    /\ Cardinality(MatchingNames \ last.rm_failed) = 1

\* C2 (as claimed): whenever a file append returns successfully, the live log
\* file is strictly smaller than max_file_size.
C2_LiveFileBelowThreshold ==
    (last.op = "log" /\ last.appended) => Len(log_file.data) < max_file_size

\* the priorities the claim states
C3_Priority ==
    (DEBUG :> 0) @@ (INFO :> 1) @@ (SUCCESS :> 2) @@ (WARNING :> 3) @@ (ERROR :> 4)

\* C3: a log call at level L prints to the console if and only if
\* priority(L) >= priority(level), and with a file_path it appends to the file
\* if and only if that holds (unless the append raises); a call below the level
\* prints nothing and changes neither the live file nor the archive directory.
C3_LevelFilter ==
    [][LogStep =>
         LET passes == C3_Priority[last'.lvl] >= C3_Priority[level]
         IN  /\ (last'.printed # <<>>) <=> passes
             /\ last'.appended => passes
             /\ (passes /\ file_path # <<>> /\ last'.raised = "none")
                    => last'.appended
             /\ ~passes => /\ log_file' = log_file
                           /\ archives' = archives
                           /\ last'.raised = "none"]_vars

\* C3 witness: success() below the level WARNING, with a live file on disk
C3_Witness ==
    /\ last.op = "log" /\ last.lvl = SUCCESS /\ level = WARNING
    /\ ~last.passed
    /\ file_path # <<>> /\ log_file.exists /\ log_file.data # <<>>

\* C4: the archive a rotation writes decompresses to exactly the content the
\* live file had before the rotation, and right after the truncation the live
\* file exists and is empty.
C4_ArchiveRoundTrip ==
    /\ (last.op = "log" /\ last.archived)
         => /\ last.stored # <<>>
            /\ GzipDecompress(last.stored[1]) = [ok |-> TRUE, data |-> last.before.data]
            /\ last.archive_name \in DOMAIN archives
                 => GzipDecompress(archives[last.archive_name].gz).data
                      = last.before.data
    /\ (last.op = "log" /\ last.truncated)
         => last.after_rotation = [exists |-> TRUE, data |-> <<>>]

\* C4 witness: a rotation of a non-empty live file whose archive is still there
C4_Witness ==
    /\ last.op = "log" /\ last.archived /\ last.truncated
    /\ last.before.data # <<>>
    /\ last.archive_name \in DOMAIN archives

\* the lines of a sequence, one after the other
RECURSIVE Flatten(_)
Flatten(lines) ==
    IF lines = <<>> THEN <<>> ELSE Head(lines) \o Flatten(Tail(lines))

\* C5: while every log call has returned normally, the live file holds exactly
\* the records appended since the latest rotation, each once and in call order,
\* the first of them being the record whose write triggered that rotation.
C5_LiveFileHoldsRecordsSinceRotation ==
    ~log_raised =>
        /\ log_file.data = Flatten(since_rotation)
        /\ (last.op = "log" /\ last.truncated)
             => log_file.data = last.record \o <<"\n">>

\* C5 witness: two records in the live file, the first written by the call that rotated
C5_Witness ==
    /\ ~log_raised /\ calls = 2
    /\ last.op = "log" /\ last.appended /\ ~last.triggered
    /\ Len(since_rotation) = 2
    /\ \E f \in DOMAIN archives : archives[f].mtime >= 59

\* C6 (as claimed): when the archive step of a rotation fails, the log call
\* raises the error to its caller.
C6_RotationFailurePropagates ==
    (last.op = "log" /\ last.io_rotate \in {"open", "gzip_write"})
        => last.raised # "none"

\* C7: when a rotation fails while reading the live file or writing the
\* archive, it leaves the live file as it was.
C7_FailedRotationKeepsLiveFile ==
    (last.op = "log" /\ last.io_rotate \in {"open", "gzip_write"})
        => /\ last.after_rotation = last.before
           /\ ~last.truncated

\* C7 witness: the archive write failed part-way on a non-empty live file
C7_Witness ==
    /\ last.op = "log" /\ last.io_rotate = "gzip_write"
    /\ last.stored # <<>>
    /\ last.before.data # <<>>

\* YYYYMMDD_HHMMSS
IsTimestamp(s) ==
    /\ Len(s) = 15
    /\ s[9] = "_"
    /\ \A i \in (1..15) \ {9} : \E d \in 1..10 : DigitChars[d] = s[i]

\* f is an archive of the log file with base name base: base_YYYYMMDD_HHMMSS.gz
IsArchiveOf(f, base) ==
    /\ Len(f) = Len(base) + 19
    /\ SubSeq(f, 1, Len(base)) = base
    /\ f[Len(base) + 1] = "_"
    /\ IsTimestamp(SubSeq(f, Len(base) + 2, Len(base) + 16))
    /\ SubSeq(f, Len(base) + 17, Len(base) + 19) = GZ

\* C8 (as claimed): a log call removes from the archive directory only
\* archives of the logger's own log file.
C8_PruneRemovesOnlyOwnArchives ==
    last.op = "log" => \A f \in last.removed : IsArchiveOf(f, Basename(file_path))

\* the five level names
C9_Levels == {DEBUG, INFO, SUCCESS, WARNING, ERROR}

\* the levels that pass the filter when the configured level is l
C9_Passing(l) == {m \in C9_Levels : C3_Priority[m] >= C3_Priority[l]}

\* C9: set_level with a name that is none of the five levels, whatever its
\* case, raises and leaves the level, and so the levels that pass the filter,
\* unchanged; with one of the five names it sets the level to that name.
C9_SetLevel ==
    [][(calls' = calls + 1 /\ last'.op = "set_level") =>
         IF \E l \in C9_Levels : Upper(last'.lvl) = l
         THEN /\ level' = Upper(last'.lvl)
              /\ last'.raised = "none"
         ELSE /\ level' = level
              /\ C9_Passing(level') = C9_Passing(level)
              /\ last'.raised = "ValueError"]_vars

\* C9 witness: set_level("bogus") raised after the level had been set to WARNING
C9_Witness ==
    /\ last.op = "set_level" /\ last.raised = "ValueError"
    /\ level = WARNING

\* C10 (as claimed): a prune that directly follows a prune removes no file.
C10_PruneIdempotent ==
    [][(last.op = "cleanup" /\ last'.op = "cleanup" /\ calls' = calls + 1)
         => last'.removed = {}]_vars

\* C10 (amended): a prune that directly follows a prune tries to remove exactly
\* as many files as the first one failed to remove, so none when no removal
\* failed; each file it removes is one whose removal failed in the first, or
\* has the modification time of one of those (which of several files of one
\* modification time lie beyond backup_count depends on the order in which
\* os.listdir names them).
C10_SecondPruneTakesLeftovers ==
    [][(last.op = "cleanup" /\ last'.op = "cleanup" /\ calls' = calls + 1)
         => /\ Cardinality(last'.removed \cup last'.rm_failed)
                 = Cardinality(last.rm_failed)
            /\ \A f \in last'.removed :
                 \/ f \in last.rm_failed
                 \/ \E g \in last.rm_failed :
                      archives[g].mtime = archives[f].mtime]_vars

\* C10 witness: a second prune that removed the one archive the first had
\* failed to remove, after the first had removed another
C10_Witness ==
    /\ last.op = "cleanup" /\ calls = 2
    /\ last.prior_removed # {}
    /\ last.prior_rm_failed # {}
    /\ last.removed = last.prior_rm_failed

\* the number of times x occurs in seq
Count(seq, x) == Cardinality({i \in 1..Len(seq) : seq[i] = x})

\* C11: with file_path unset a log call that passes the level filter prints
\* its record, returns normally and makes no file operation: the live file, the
\* archive directory and its content are as before; and constructing a logger
\* without file_path creates no directory.
C11_ConsoleOnly ==
    [][/\ (LogStep /\ file_path = <<>> /\ C3_Priority[last'.lvl] >= C3_Priority[level])
            => /\ last'.ops = <<"print">>
               /\ Len(last'.printed) = 1 /\ last'.printed[1].kind = "record"
               /\ last'.raised = "none"
               /\ log_file' = log_file
               /\ archives' = archives
               /\ archive_dir_exists' = archive_dir_exists
       /\ (last'.op = "construct" /\ constructed = "no" /\ file_path' = <<>>)
            => /\ archive_dir_exists' = archive_dir_exists
               /\ log_file' = log_file
               /\ archives' = archives]_vars

\* C11 witness: a record logged by a logger that was given an archive_dir but
\* no file_path, on a disk without the directory
C11_Witness ==
    /\ last.op = "log" /\ last.passed
    /\ file_path = <<>> /\ archive_dir # <<>>
    /\ ~archive_dir_exists

\* C12: in a log call that passes the level filter the record is printed before
\* any file operation of the call and exactly once, also when a file operation
\* fails afterwards; a call that does not pass prints nothing.
C12_ConsoleFirst ==
    last.op = "log" =>
        IF last.passed
        THEN /\ last.ops # <<>> /\ last.ops[1] = "print"
             /\ Count(last.ops, "print") = 1
             /\ last.printed # <<>> /\ last.printed[1].kind = "record"
             /\ Cardinality({i \in 1..Len(last.printed) :
                               last.printed[i].kind = "record"}) = 1
        ELSE last.ops = <<>> /\ last.printed = <<>>

\* C12 witness: a call whose append raised after the rotation and the print
C12_Witness ==
    /\ last.op = "log" /\ last.passed
    /\ last.raised # "none"
    /\ last.truncated
    /\ Len(last.ops) > 1

\* s is a proper prefix of t
IsProperPrefix(s, t) == Len(s) < Len(t) /\ SubSeq(t, 1, Len(s)) = s

\* C13: when opening or writing the live file for the append fails, the log
\* call raises, the file is opened for appending once, and the live file gains
\* less than the complete record.
C13_AppendFailureRaised ==
    (last.op = "log" /\ last.io_append \in {"open_a", "write"})
        => /\ last.raised = "OSError"
           /\ ~last.appended
           /\ Count(last.ops, "open_a") = 1
           /\ \E k \in 0..LastRecordSize - 1 :
                /\ Len(log_file.data) = Len(last.after_rotation.data) + k
                /\ IsProperPrefix(SubSeq(log_file.data,
                                         Len(last.after_rotation.data) + 1,
                                         Len(log_file.data)),
                                  last.record
                                  \o <<"\n">>)
                /\ SubSeq(log_file.data, 1, Len(last.after_rotation.data))
                     = last.after_rotation.data

\* C13 witness: a write that failed after part of the record reached the file
C13_Witness ==
    /\ last.op = "log" /\ last.io_append = "write"
    /\ last.raised = "OSError"
    /\ Len(log_file.data) > Len(last.after_rotation.data)

\* C14: when the removal of an excess archive fails during the prune of a log
\* call, the other excess archives are still removed (what is left is at most
\* backup_count archives and the ones that could not be removed), the record
\* is appended and the call returns normally.
C14_PruneFailureNotFatal ==
    (last.op = "log" /\ last.rm_failed # {})
        => /\ last.pruned
           /\ last.rm_failed \subseteq MatchingNames
           /\ Cardinality(MatchingNames \ last.rm_failed) <= backup_count
           /\ last.removed \cap DOMAIN archives = {}
           /\ last.appended
           /\ last.raised = "none"

\* C14 witness: one removal failed, another excess archive was removed, and
\* the record is in the live file
C14_Witness ==
    /\ last.op = "log" /\ last.rm_failed # {} /\ last.removed # {}
    /\ last.appended
    /\ log_file.data = last.record \o <<"\n">>

\* C15: the rotation check comes before the append of every log call that
\* writes to the file; a rotation is due if and only if the live file exists and
\* holds at least max_file_size bytes when checked, it archives and truncates
\* only when due, and does both when due and no operation fails; when the file
\* is missing or smaller the call leaves the archive directory and the content
\* of the file as they were and only appends its record.
C15_RotationCheck ==
    [][(LogStep /\ file_path # <<>> /\ last'.passed) =>
         LET due == log_file.exists /\ Len(log_file.data) >= max_file_size
             record == last'.record \o <<"\n">>
         IN  /\ Len(last'.ops) >= 3
             /\ last'.ops[2] = "exists"
             /\ \A i \in 1..Len(last'.ops) : last'.ops[i] = "open_a" => i > 2
             /\ log_file.exists => last'.ops[3] = "getsize"
             /\ last'.triggered <=> due
             /\ (last'.archived \/ last'.truncated) => due
             /\ (due /\ last'.io_rotate = "none")
                    => last'.archived /\ last'.truncated
             /\ ~due => /\ archives' = archives
                        /\ last'.after_rotation = log_file
                        /\ last'.raised = "none"
                             => log_file'.data = log_file.data \o record]_vars

\* C15 witness: a record appended to an existing file smaller than
\* max_file_size, without rotation
C15_Witness ==
    /\ last.op = "log" /\ last.checked /\ ~last.triggered
    /\ last.before.exists /\ last.before.data # <<>>
    /\ last.appended
    /\ Len(last.before.data) = max_file_size - 1

\* C17 (as claimed): right after each successful append the live file holds at
\* most (max_file_size - 1) bytes plus the record just appended with its newline.
C17_OvershootBelowOneRecord ==
    (last.op = "log" /\ last.appended)
        => Len(log_file.data) <= (max_file_size - 1) + LastRecordSize

\* C18 (as claimed): a rotation that writes its archive adds a file to the
\* archive directory that was not there before.
C18_RotationAddsNewArchive ==
    [][(LogStep /\ last'.archived) => last'.archive_name \notin DOMAIN archives]_vars

\* C20 (as claimed): a construction with a level name that is none of the five
\* raises and leaves the disk as it was; one that succeeds with a file_path
\* leaves the archive directory existing.
C20_FailedConstructionLeavesDisk ==
    [][(last'.op = "construct" /\ constructed = "no") =>
         IF \E l \in C9_Levels : Upper(last'.lvl) = l
         THEN /\ last'.raised = "none"
              /\ file_path' # <<>> => archive_dir_exists'
         ELSE /\ last'.raised = "ValueError"
              /\ archive_dir_exists' = archive_dir_exists
              /\ log_file' = log_file
              /\ archives' = archives]_vars

\* the names the prune of the latest call listed as archives of the log file
ListedNames == DOMAIN last.mtimes

\* the listed archives, other than the one just written, that are not older than it
NotOlderThanNew ==
    {f \in ListedNames \ {last.archive_name} :
       last.mtimes[f] >= last.mtimes[last.archive_name]}

\* the prune kept the min(backup_count, n) listed archives with the latest
\* modification times
KeptAreLatest ==
    /\ last.removed \subseteq ListedNames
    /\ Cardinality(ListedNames \ last.removed)
         = IF backup_count < Cardinality(ListedNames) THEN backup_count
           ELSE Cardinality(ListedNames)
    /\ \A f \in last.removed : \A g \in ListedNames \ last.removed :
         last.mtimes[f] <= last.mtimes[g]

\* C16 (as claimed): after the prune of a log call in which no removal failed,
\* the surviving matching archives are the min(backup_count, n) with the latest
\* modification times, and with backup_count >= 1 the archive the call just
\* wrote is among them.
C16_KeptAreLatestAndNew ==
    (last.op = "log" /\ last.pruned /\ last.rm_failed = {})
        => /\ KeptAreLatest
           /\ backup_count >= 1 => last.archive_name \in DOMAIN archives

\* C16 (amended): after the prune of a log call in which no removal failed, the
\* surviving matching archives are the min(backup_count, n) with the latest
\* modification times, and the archive the call just wrote is among them when
\* fewer than backup_count other matching archives have a modification time
\* that is not earlier than its own.
C16_KeptAreLatest ==
    (last.op = "log" /\ last.pruned /\ last.rm_failed = {})
        => /\ KeptAreLatest
           /\ Cardinality(NotOlderThanNew) < backup_count
                => last.archive_name \in DOMAIN archives

\* C16 witness: a prune with backup_count = 2 that removed an older archive and
\* kept the one just written beside an archive of the same modification time
C16_Witness ==
    /\ last.op = "log" /\ last.pruned /\ last.rm_failed = {}
    /\ backup_count = 2
    /\ last.removed # {}
    /\ last.archive_name \in DOMAIN archives
    /\ \A f \in last.removed : last.mtimes[f] < last.mtimes[last.archive_name]
    /\ NotOlderThanNew # {}

\* C19: the steps of a log call are not atomic, so with two threads and no
\* lock a truncation removes a record that no archive holds (the witness: both
\* threads find the file at max_file_size, both rotate, and one truncates the
\* other's record).  A truncation removes a line that reached no archive only
\* if the line was appended while another thread was between its first read
\* of the live file and its truncation, or if the archive the line was copied
\* into did not reach the directory.
C19_LostOnlyInRace ==
    /\ threads.lost \subseteq (threads.raced \cup threads.voided)
    /\ threads.raced \subseteq Range(threads.lines)

\* C19 witness: both threads rotated, under different archive names, and the
\* record one of them appended is in neither the live file nor any archive
C19_Witness ==
    /\ threads.rotated = Threads
    /\ threads.lost # {}
    /\ \A t \in Threads : threads.pc[t] = "idle"
    /\ calls = 2
    /\ backup_count = 2
    /\ \E f, g \in DOMAIN archives :
         /\ f # g
         /\ archives[f].mtime = 59 /\ archives[g].mtime = 60
    /\ \E l \in threads.lost :
         /\ ~Contains(log_file.data, l)
         /\ \A f \in DOMAIN archives :
              ~Contains(GzipDecompress(archives[f].gz).data, l)

====
